---------------------------- MODULE Spec2Model ----------------------------
(***************************************************************************)
(* Model of src/depr/savers.py: the record normaliser (fill_gaps,          *)
(* clean_data, bdate_to_iso) and the incremental writers (save,            *)
(* save_as_sv, save_as_json, create_file).                                 *)
(*                                                                         *)
(* Text is a sequence of one-character strings, so that parsing,           *)
(* formatting and serialisation are computed character by character and    *)
(* a file is the sequence of its bytes.  The alphabet of the inputs is     *)
(* ASCII without quotes, backslashes or control characters, for which      *)
(* json.dumps escapes nothing.                                             *)
(***************************************************************************)
EXTENDS Integers, Sequences, FiniteSets, TLC

VARIABLES
    ext,      \* extension of the destination path (os.path.splitext(path)[1])
    file,     \* the destination file: [exists, bytes]
    before,   \* the destination file when the last operation started
    op,       \* the last operation: "boot", "create_file", "save", "bdate_to_iso"
    arg,      \* data["items"] as the caller passed it to the last save
    items,    \* the caller's data["items"] object after the last save
    exc,      \* how the last operation ended: "none" or the exception raised
    first,    \* the batch passed to the first save, where a behaviour records it
    ncalls,   \* the number of save calls since the file was created
    bd_in,    \* argument of the last direct bdate_to_iso call
    bd_out    \* its outcome: [val, exc]

vars == <<ext, file, before, op, arg, items, exc, first, ncalls, bd_in, bd_out>>

-----------------------------------------------------------------------------
(* Bounds *)

\* longest batch passed to one save call
MaxBatch == 2
\* number of save calls in one behaviour
MaxCalls == 3
\* number of save calls in a behaviour that records the first batch
PairCalls == 2

-----------------------------------------------------------------------------
(* Python values *)

Absent    == [t |-> "absent", s |-> <<>>]   \* the key is not in the dict
None      == [t |-> "none",   s |-> <<>>]
Str(s)    == [t |-> "str",    s |-> s]
IntVal(s) == [t |-> "int",    s |-> s]      \* s: the decimal digits
Titled(s) == [t |-> "dict",   s |-> s]      \* the object {"title": s}

NoExc == "none"

-----------------------------------------------------------------------------
(* datetime.strptime(bdate, fmt) for the two formats of bdate_to_iso *)

DigitChars == <<"0", "1", "2", "3", "4", "5", "6", "7", "8", "9">>

IsDigit(c) == \E k \in 1..10 : DigitChars[k] = c

DigitVal(c) == (CHOOSE k \in 1..10 : DigitChars[k] = c) - 1

At(s, i) == IF i >= 1 /\ i <= Len(s) THEN s[i] ELSE "<eof>"

NoMatch == [ok |-> FALSE, v |-> 0, next |-> 0]

Match(v, next) == [ok |-> TRUE, v |-> v, next |-> next]

\* %d : 3[0-1]|[1-2]\d|0[1-9]|[1-9]| [1-9]   (the alternatives in order)
ParseDay(s, i) ==
    LET a == At(s, i)
        b == At(s, i + 1)
    IN  IF a = "3" /\ b \in {"0", "1"} THEN Match(30 + DigitVal(b), i + 2)
        ELSE IF a \in {"1", "2"} /\ IsDigit(b)
            THEN Match(10 * DigitVal(a) + DigitVal(b), i + 2)
        ELSE IF a = "0" /\ IsDigit(b) /\ b # "0" THEN Match(DigitVal(b), i + 2)
        ELSE IF IsDigit(a) /\ a # "0" THEN Match(DigitVal(a), i + 1)
        ELSE IF a = " " /\ IsDigit(b) /\ b # "0" THEN Match(DigitVal(b), i + 2)
        ELSE NoMatch

\* %m : 1[0-2]|0[1-9]|[1-9]
ParseMonth(s, i) ==
    LET a == At(s, i)
        b == At(s, i + 1)
    IN  IF a = "1" /\ b \in {"0", "1", "2"} THEN Match(10 + DigitVal(b), i + 2)
        ELSE IF a = "0" /\ IsDigit(b) /\ b # "0" THEN Match(DigitVal(b), i + 2)
        ELSE IF IsDigit(a) /\ a # "0" THEN Match(DigitVal(a), i + 1)
        ELSE NoMatch

\* %Y : \d\d\d\d
ParseYear(s, i) ==
    IF \A k \in 0..3 : IsDigit(At(s, i + k))
    THEN Match(1000 * DigitVal(s[i]) + 100 * DigitVal(s[i + 1])
                 + 10 * DigitVal(s[i + 2]) + DigitVal(s[i + 3]), i + 4)
    ELSE NoMatch

IsLeap(y) == y % 4 = 0 /\ (y % 100 # 0 \/ y % 400 = 0)

DaysInMonth(y, m) ==
    IF m = 2 THEN (IF IsLeap(y) THEN 29 ELSE 28)
    ELSE IF m \in {4, 6, 9, 11} THEN 30 ELSE 31

\* datetime(year, month, day) accepts the fields
ValidDate(y, m, d) == y >= 1 /\ d >= 1 /\ d <= DaysInMonth(y, m)

NoDate == [ok |-> FALSE, y |-> 0, m |-> 0, d |-> 0]

\* the year a format without %Y leaves in the datetime
DefaultYear == 1900

\* the literal "." of the format after the day, then %m
MonthAfterDot(s, d) ==
    IF d.ok /\ At(s, d.next) = "." THEN ParseMonth(s, d.next + 1) ELSE NoMatch

\* the literal "." of the format after the month, then %Y
YearAfterDot(s, m) ==
    IF m.ok /\ At(s, m.next) = "." THEN ParseYear(s, m.next + 1) ELSE NoMatch

\* the datetime of the matched fields, if the whole string was consumed
DateOf(s, last, y, m, d) ==
    IF last.ok /\ last.next = Len(s) + 1 /\ ValidDate(y, m, d)
    THEN [ok |-> TRUE, y |-> y, m |-> m, d |-> d]
    ELSE NoDate

DateOfDMY(s, d, m, y) == DateOf(s, y, y.v, m.v, d.v)

MonthThenYear(s, d, m) == DateOfDMY(s, d, m, YearAfterDot(s, m))

DayThenMonthYear(s, d) == MonthThenYear(s, d, MonthAfterDot(s, d))

\* strptime(s, "%d.%m.%Y")
StrptimeDMY(s) == DayThenMonthYear(s, ParseDay(s, 1))

DateOfDM(s, d, m) == DateOf(s, m, DefaultYear, m.v, d.v)

DayThenMonth(s, d) == DateOfDM(s, d, MonthAfterDot(s, d))

\* strptime(s, "%d.%m")
StrptimeDM(s) == DayThenMonth(s, ParseDay(s, 1))

DigitOf(n) == DigitChars[n + 1]

Pad2(n) == <<DigitOf((n \div 10) % 10), DigitOf(n % 10)>>

Pad4(n) == <<DigitOf((n \div 1000) % 10), DigitOf((n \div 100) % 10)>> \o Pad2(n)

\* datetime.isoformat(sep="T").split("T")[0]
IsoDate(dt) == Pad4(dt.y) \o <<"-">> \o Pad2(dt.m) \o <<"-">> \o Pad2(dt.d)

Returned(v) == [val |-> v, exc |-> NoExc]

Raised(v, e) == [val |-> v, exc |-> e]

\* the try / except ValueError of bdate_to_iso, given what each strptime gives
TryFormats(bdate, full, short) ==
    IF full.ok THEN Returned(Str(IsoDate(full)))
    ELSE IF short.ok THEN Returned(Str(IsoDate(short)))
    ELSE Raised(bdate, "ValueError")

bdate_to_iso(bdate) ==
    IF bdate = None THEN Returned(None)
    ELSE IF bdate.t # "str" THEN Raised(bdate, "TypeError")
    ELSE TryFormats(bdate, StrptimeDMY(bdate.s), StrptimeDM(bdate.s))

-----------------------------------------------------------------------------
(* Records: a friend is a dict, modelled as a function from the six keys   *)
(* the code reads to values, Absent where the dict has no such key.        *)

KeyOrder == <<"first_name", "last_name", "country", "city", "bdate", "sex">>

Keys == {KeyOrder[k] : k \in 1..Len(KeyOrder)}

\* value["title"]
SubscriptTitle(value) ==
    IF value.t = "dict" THEN Returned(Str(value.s)) ELSE Raised(value, "TypeError")

\* friend[key] = <right-hand side>, where r is what the right-hand side gave
Assign(friend, key, r) ==
    IF r.exc # NoExc THEN Raised(friend, r.exc)
    ELSE Returned([friend EXCEPT ![key] = r.val])

\* the if/else pair of fill_gaps for "city" and for "country"
FillTitle(friend, key) ==
    IF friend[key] = Absent THEN Returned([friend EXCEPT ![key] = None])
    ELSE Assign(friend, key, SubscriptTitle(friend[key]))

FillBdate(friend) ==
    IF friend["bdate"] = Absent THEN Returned([friend EXCEPT !["bdate"] = None])
    ELSE Assign(friend, "bdate", bdate_to_iso(friend["bdate"]))

Female == Str(<<"F", "e", "m", "a", "l", "e">>)

Male == Str(<<"M", "a", "l", "e">>)

\* FillSex with the two texts exchanged
FillSexSwapped(friend) ==
    IF friend["sex"] = Absent THEN Returned([friend EXCEPT !["sex"] = None])
    ELSE Returned([friend EXCEPT !["sex"] =
                      IF friend["sex"] = IntVal(<<"1">>) THEN Male ELSE Female])

FillSex(friend) ==
    IF friend["sex"] = Absent THEN Returned([friend EXCEPT !["sex"] = None])
    ELSE Returned([friend EXCEPT !["sex"] =
                      IF friend["sex"] = IntVal(<<"1">>) THEN Female ELSE Male])

FillCity(friend) == FillTitle(friend, "city")

FillCountry(friend) == FillTitle(friend, "country")

\* each statement runs unless the one before raised
AfterCity(r) == IF r.exc # NoExc THEN r ELSE FillCountry(r.val)

AfterCountry(r) == IF r.exc # NoExc THEN r ELSE FillBdate(r.val)

AfterBdate(r) == IF r.exc # NoExc THEN r ELSE FillSex(r.val)

\* the body of the loop of fill_gaps: the friend after it, and what it raised
FillFriend(friend) == AfterBdate(AfterCountry(AfterCity(FillCity(friend))))

RECURSIVE FillFrom(_, _)

\* after the body ran for friends[i] and gave r
FillLoop(friends, i, r) ==
    IF r.exc # NoExc THEN Raised([friends EXCEPT ![i] = r.val], r.exc)
    ELSE FillFrom([friends EXCEPT ![i] = r.val], i + 1)

FillFrom(friends, i) ==
    IF i > Len(friends) THEN Returned(friends)
    ELSE FillLoop(friends, i, FillFriend(friends[i]))

\* fill_gaps rewrites the friends of data["items"] in place
fill_gaps(friends) == FillFrom(friends, 1)

\* friend[key]
GetItem(friend, key) ==
    IF friend[key] = Absent THEN Raised(Absent, "KeyError") ELSE Returned(friend[key])

\* friend[key]["title"] if key in friend else None
TitleOrNone(friend, key) ==
    IF friend[key] = Absent THEN Returned(None) ELSE SubscriptTitle(friend[key])

\* friend[key] if key in friend else None
ValueOrNone(friend, key) ==
    IF friend[key] = Absent THEN Returned(None) ELSE Returned(friend[key])

\* what each of the six value expressions of the OrderedDict literal gives
PairValues(friend) ==
    [key \in Keys |->
        IF key \in {"first_name", "last_name"} THEN GetItem(friend, key)
        ELSE IF key \in {"country", "city"} THEN TitleOrNone(friend, key)
        ELSE ValueOrNone(friend, key)]

\* the positions in KeyOrder whose expression raises
Raising(part) == {k \in 1..Len(KeyOrder) : part[KeyOrder[k]].exc # NoExc}

\* the expressions are evaluated in order: the first that raises ends it
BuildDict(friend, part, bad) ==
    IF bad = {} THEN Returned([key \in Keys |-> part[key].val])
    ELSE Raised(friend, part[KeyOrder[CHOOSE k \in bad : \A j \in bad : k <= j]].exc)

OrderedDictFrom(friend, part) == BuildDict(friend, part, Raising(part))

OrderedDictOf(friend) == OrderedDictFrom(friend, PairValues(friend))

RECURSIVE CleanFrom(_, _)

\* after the OrderedDict for friends[i] was built, or raised
CleanLoop(friends, i, r) ==
    IF r.exc # NoExc THEN Raised(friends, r.exc)
    ELSE CleanFrom([friends EXCEPT ![i] = r.val], i + 1)

CleanFrom(friends, i) ==
    IF i > Len(friends) THEN Returned(friends)
    ELSE CleanLoop(friends, i, OrderedDictOf(friends[i]))

\* the loop of clean_data, unless fill_gaps raised
AfterFillGaps(r) == IF r.exc # NoExc THEN r ELSE CleanFrom(r.val, 1)

\* clean_data: data["items"] as the call leaves it, and the exception it raised
clean_data(friends) == AfterFillGaps(fill_gaps(friends))

-----------------------------------------------------------------------------
(* json.dumps(obj, indent=2) *)

NL == "\n"

RECURSIVE Spaces(_)
Spaces(n) == IF n <= 0 THEN <<>> ELSE <<" ">> \o Spaces(n - 1)

\* the newline and indentation json.dumps puts before an item at this depth
NewlineIndent(level) == <<NL>> \o Spaces(2 * level)

Quoted(s) == <<"\"">> \o s \o <<"\"">>

RECURSIVE JoinItems(_, _)
\* sep.join(parts)
JoinItems(parts, sep) ==
    IF parts = <<>> THEN <<>>
    ELSE IF Len(parts) = 1 THEN parts[1]
    ELSE parts[1] \o sep \o JoinItems(Tail(parts), sep)

\* a container: empty, or its items one per line at level + 1
DumpsContainer(open, close, parts, level) ==
    IF parts = <<>> THEN <<open, close>>
    ELSE <<open>> \o NewlineIndent(level + 1)
           \o JoinItems(parts, <<",">> \o NewlineIndent(level + 1))
           \o NewlineIndent(level) \o <<close>>

DumpsValue(value, level) ==
    IF value.t = "none" THEN <<"n", "u", "l", "l">>
    ELSE IF value.t = "int" THEN value.s
    ELSE IF value.t = "str" THEN Quoted(value.s)
    ELSE DumpsContainer("{", "}",
             <<Quoted(<<"t", "i", "t", "l", "e">>) \o <<":", " ">> \o Quoted(value.s)>>, level)

Chars(name) ==
    CASE name = "first_name" -> <<"f", "i", "r", "s", "t", "_", "n", "a", "m", "e">>
      [] name = "last_name" -> <<"l", "a", "s", "t", "_", "n", "a", "m", "e">>
      [] name = "country" -> <<"c", "o", "u", "n", "t", "r", "y">>
      [] name = "city" -> <<"c", "i", "t", "y">>
      [] name = "bdate" -> <<"b", "d", "a", "t", "e">>
      [] name = "sex" -> <<"s", "e", "x">>

RECURSIVE PresentKeys(_, _)
\* the keys of the dict, in order
PresentKeys(friend, k) ==
    IF k > Len(KeyOrder) THEN <<>>
    ELSE (IF friend[KeyOrder[k]] = Absent THEN <<>> ELSE <<KeyOrder[k]>>)
           \o PresentKeys(friend, k + 1)

DumpsFriend(friend, level) ==
    LET ks == PresentKeys(friend, 1)
    IN  DumpsContainer("{", "}",
            [k \in 1..Len(ks) |-> Quoted(Chars(ks[k])) \o <<":", " ">>
                                     \o DumpsValue(friend[ks[k]], level + 1)],
            level)

DumpsList(friends, level) ==
    DumpsContainer("[", "]",
        [k \in 1..Len(friends) |-> DumpsFriend(friends[k], level + 1)], level)

\* json.dumps(data["items"], indent=2)
DumpsItems(friends) == DumpsList(friends, 0)

\* json.dumps([data["items"]], indent=2)
DumpsWrapped(friends) == DumpsContainer("[", "]", <<DumpsList(friends, 1)>>, 0)

-----------------------------------------------------------------------------
(* csv.writer(file, delimiter=d).writerow(fields), QUOTE_MINIMAL *)

CR == "\r"

TAB == "\t"

LineTerminator == <<CR, NL>>

Has(s, c) == \E k \in 1..Len(s) : s[k] = c

RECURSIVE Doubled(_)
\* every quote character doubled
Doubled(s) ==
    IF s = <<>> THEN <<>>
    ELSE (IF Head(s) = "\"" THEN <<"\"", "\"">> ELSE <<Head(s)>>) \o Doubled(Tail(s))

\* str(value), and "" for None
CsvText(value) == IF value.t = "none" THEN <<>> ELSE value.s

CsvField(value, delim) ==
    LET s == CsvText(value)
    IN  IF Has(s, delim) \/ Has(s, "\"") \/ Has(s, CR) \/ Has(s, NL)
        THEN Quoted(Doubled(s)) ELSE s

WriteRow(fields, delim) ==
    JoinItems([k \in 1..Len(fields) |-> CsvField(fields[k], delim)], <<delim>>)
      \o LineTerminator

\* sv_delimiters
sv_delimiters == [e \in {".csv", ".tsv"} |-> IF e = ".csv" THEN "," ELSE TAB]

HeaderFields == <<Str(<<"F", "i", "r", "s", "t", " ", "N", "a", "m", "e">>), Str(<<"L", "a", "s", "t", " ", "N", "a", "m", "e">>), Str(<<"C", "o", "u", "n", "t", "r", "y">>), Str(<<"C", "i", "t", "y">>), Str(<<"B", "i", "r", "t", "h", "d", "a", "t", "e">>), Str(<<"S", "e", "x">>)>>

\* the row save_as_sv writes for one friend
FriendFields(friend) == [k \in 1..Len(KeyOrder) |-> friend[KeyOrder[k]]]

RECURSIVE WriteRows(_, _)
WriteRows(friends, delim) ==
    IF friends = <<>> THEN <<>>
    ELSE WriteRow(FriendFields(Head(friends)), delim) \o WriteRows(Tail(friends), delim)

-----------------------------------------------------------------------------
(* The destination file and the operations on it *)

NoFile == [exists |-> FALSE, bytes |-> <<>>]

FileOf(bytes) == [exists |-> TRUE, bytes |-> bytes]

\* open(path, "a") / open(path, "ab"): creates the file when there is none
OpenAppend(f) == FileOf(f.bytes)

\* TruncateLast seeking one byte too far: file.seek(-2, 2)
TruncateTwo(bytes) == SubSeq(bytes, 1, Len(bytes) - 2)

\* file.seek(-1, 2); file.truncate()
TruncateLast(bytes) == SubSeq(bytes, 1, Len(bytes) - 1)

\* the outcome of an operation: the file, data["items"], the exception raised
Outcome(f, friends, e) == [file |-> f, items |-> friends, exc |-> e]

\* the branch of save_as_json for an empty file
WriteFirst(friends) == DumpsWrapped(friends)

\* WriteNext without the separator between the batches
WriteNextNoSeparator(bytes, friends) ==
    TruncateLast(bytes) \o DumpsItems(friends) \o <<"]">>

\* the branch of save_as_json for a file that holds something
WriteNext(bytes, friends) ==
    TruncateLast(bytes) \o <<" ", ",", " ">> \o DumpsItems(friends) \o <<"]">>

\* the with block of save_as_json
WriteJson(friends, f) ==
    IF Len(OpenAppend(f).bytes) = 0 THEN FileOf(WriteFirst(friends))
    ELSE FileOf(WriteNext(f.bytes, friends))

\* the terminator removed and the separator written, before the batch
TailOpened(f) ==
    IF Len(f.bytes) = 0 THEN f
    ELSE FileOf(TruncateLast(f.bytes) \o <<" ", ",", " ">>)

\* AfterCleanJson of a save_as_json that normalises inside the with block,
\* after the terminator is removed and the separator written
AfterCleanJsonLate(cleaned, f) ==
    IF cleaned.exc # NoExc THEN Outcome(TailOpened(f), cleaned.val, cleaned.exc)
    ELSE Outcome(WriteJson(cleaned.val, f), cleaned.val, NoExc)

\* save_as_json once clean_data has returned or raised
AfterCleanJson(cleaned, f) ==
    IF cleaned.exc # NoExc THEN Outcome(f, cleaned.val, cleaned.exc)
    ELSE Outcome(WriteJson(cleaned.val, f), cleaned.val, NoExc)

save_as_json(friends, f) == AfterCleanJson(clean_data(friends), f)

\* the with block of save_as_sv once clean_data has returned or raised
AfterCleanSv(cleaned, delim, f) ==
    IF cleaned.exc # NoExc THEN Outcome(OpenAppend(f), cleaned.val, cleaned.exc)
    ELSE Outcome(FileOf(f.bytes \o WriteRows(cleaned.val, delim)), cleaned.val, NoExc)

save_as_sv(friends, data_ext, f) ==
    IF data_ext \notin DOMAIN sv_delimiters
    THEN Outcome(OpenAppend(f), friends, "KeyError")
    ELSE AfterCleanSv(clean_data(friends), sv_delimiters[data_ext], f)

save(friends, data_ext, f) ==
    IF data_ext = ".json" THEN save_as_json(friends, f)
    ELSE save_as_sv(friends, data_ext, f)

\* create_file, the directory apart
create_file(data_ext, f) ==
    IF data_ext \in {".csv", ".tsv"}
    THEN FileOf(WriteRow(HeaderFields, sv_delimiters[data_ext]))
    ELSE IF data_ext = ".json" THEN FileOf(<<>>)
    ELSE f

-----------------------------------------------------------------------------
(* Inputs *)

Exts == {".json", ".csv", ".tsv", ".txt"}

RawFriend(country, city, bdate, sex) ==
    [key \in Keys |->
        CASE key = "first_name" -> Str(<<"A", "n", "n">>)
          [] key = "last_name" -> Str(<<"L", "e", "e">>)
          [] key = "country" -> country
          [] key = "city" -> city
          [] key = "bdate" -> bdate
          [] key = "sex" -> sex]

\* only the two names
FriendBare == RawFriend(Absent, Absent, Absent, Absent)

\* every optional field, a full date
FriendFull == RawFriend(Titled(<<"N", "o", "r", "w", "a", "y">>), Titled(<<"O", "s", "l", "o">>), Str(<<"1", "5", ".", "0", "3", ".", "1", "9", "9", "0">>), IntVal(<<"1">>))

\* a date without its year
FriendDayMonth == RawFriend(Absent, Titled(<<"O", "s", "l", "o">>), Str(<<"1", "5", ".", "0", "3">>), IntVal(<<"2">>))

\* a date of neither form
FriendBadDate == RawFriend(Absent, Absent, Str(<<"2", "0", "0", "0">>), Absent)

Friends == {FriendBare, FriendFull, FriendDayMonth, FriendBadDate}

RECURSIVE SeqsUpTo(_, _)
\* the sequences over S of length at most n
SeqsUpTo(S, n) ==
    IF n = 0 THEN {<<>>}
    ELSE LET shorter == SeqsUpTo(S, n - 1)
         IN  shorter \cup {Append(q, x) : q \in shorter, x \in S}

Batches == SeqsUpTo(Friends, MaxBatch)

DayTexts == {<<"1">>, <<"0", "1">>, <<"1", "5">>, <<"2", "9">>, <<"3", "1">>, <<"3", "2">>, <<"0", "0">>}

MonthTexts == {<<"2">>, <<"0", "2">>, <<"0", "3">>, <<"0", "4">>, <<"1", "2">>, <<"1", "3">>}

YearTexts == {<<"1", "9", "9", "0">>, <<"2", "0", "0", "0">>, <<"1", "9", "0", "0">>, <<"0", "0", "0", "0">>, <<"1", "9", "9", "0", "0">>}

BdateInputs ==
    {None, Str(<<>>), Str(<<"2", "0", "0", "0">>), Str(<<" ", "1", ".", "0", "2">>), Str(<<"1", "5", ".", "0", "3", ".">>)}
      \cup {Str(d \o <<".">> \o m) : d \in DayTexts, m \in MonthTexts}
      \cup {Str(d \o <<".">> \o m \o <<".">> \o y) :
                d \in DayTexts, m \in MonthTexts, y \in YearTexts}

\* what some other program may have left at the path of a .json destination
ExternalBytes ==
    {<<>>, <<"{", "}">>, <<"[", "]">>, <<"[">>, <<"[", "]", " ">>, <<"n", "u", "l", "l">>, <<"[", "[", "]">>, <<"x">>}

-----------------------------------------------------------------------------
(* The state machine *)

Boot(e, f) ==
    /\ ext = e
    /\ file = f
    /\ before = f
    /\ op = "boot"
    /\ arg = <<>>
    /\ items = <<>>
    /\ exc = NoExc
    /\ first = <<>>
    /\ ncalls = 0
    /\ bd_in = None
    /\ bd_out = Returned(None)

\* the destination as create_file leaves it
Init == \E e \in Exts : Boot(e, create_file(e, NoFile))

\* a .json destination that holds what something else wrote
InitExternal == \E b \in ExternalBytes : Boot(".json", FileOf(b))

InitBdate == Boot(".json", create_file(".json", NoFile))

CreateFile ==
    /\ file' = create_file(ext, file)
    /\ before' = file
    /\ op' = "create_file"
    /\ arg' = <<>>
    /\ items' = <<>>
    /\ exc' = NoExc
    /\ first' = <<>>
    /\ ncalls' = 0
    /\ UNCHANGED <<ext, bd_in, bd_out>>

\* save(data, path), whatever the caller keeps of earlier calls
SaveCall(batch) ==
    /\ \E r \in {save(batch, ext, file)} :
           /\ file' = r.file
           /\ items' = r.items
           /\ exc' = r.exc
    /\ before' = file
    /\ op' = "save"
    /\ arg' = batch
    /\ ncalls' = ncalls + 1
    /\ UNCHANGED <<ext, bd_in, bd_out>>

Save(batch) ==
    /\ ncalls < MaxCalls
    /\ SaveCall(batch)
    /\ UNCHANGED first

\* the first and the second save on a destination, the first batch kept
SavePair(batch) ==
    /\ ncalls < PairCalls
    /\ SaveCall(batch)
    /\ first' = IF ncalls = 0 THEN batch ELSE first

BdateToIso(bdate) ==
    /\ op' = "bdate_to_iso"
    /\ bd_in' = bdate
    /\ bd_out' = bdate_to_iso(bdate)
    /\ UNCHANGED <<ext, file, before, arg, items, exc, first, ncalls>>

Next ==
    \/ CreateFile
    \/ \E batch \in Batches : Save(batch)

NextPair ==
    \/ CreateFile
    \/ \E batch \in Batches : SavePair(batch)

NextBdate == \E bdate \in BdateInputs : BdateToIso(bdate)

Spec == Init /\ [][Next]_vars

SpecExternal == InitExternal /\ [][Next]_vars

SpecPair == Init /\ [][NextPair]_vars

SpecBdate == InitBdate /\ [][NextBdate]_vars

-----------------------------------------------------------------------------
(* Reading a file back: a JSON parser and a splitter of delimited rows.    *)
(* These state what the files must contain; the program never runs them.   *)

\* a parsed JSON value; a member of an object carries its key
JArr(elems) == [k |-> "arr", key |-> <<>>, items |-> elems, s |-> <<>>]

JObj(members) == [k |-> "obj", key |-> <<>>, items |-> members, s |-> <<>>]

JStr(s) == [k |-> "str", key |-> <<>>, items |-> <<>>, s |-> s]

JNum(s) == [k |-> "num", key |-> <<>>, items |-> <<>>, s |-> s]

JNull == [k |-> "null", key |-> <<>>, items |-> <<>>, s |-> <<>>]

JMember(key, v) == [v EXCEPT !.key = key]

JFail == [ok |-> FALSE, val |-> JNull, next |-> 0]

JOk(v, next) == [ok |-> TRUE, val |-> v, next |-> next]

IsSpace(c) == c \in {" ", NL, CR, TAB}

RECURSIVE SkipWs(_, _)
SkipWs(b, i) == IF IsSpace(At(b, i)) THEN SkipWs(b, i + 1) ELSE i

RECURSIVE StrEnd(_, _)
\* the index of the quote that closes a string whose text starts at i, or 0
StrEnd(b, i) ==
    IF i > Len(b) \/ b[i] = "\\" THEN 0
    ELSE IF b[i] = "\"" THEN i
    ELSE StrEnd(b, i + 1)

RECURSIVE NumEnd(_, _)
NumEnd(b, i) == IF IsDigit(At(b, i)) THEN NumEnd(b, i + 1) ELSE i

JParseString(b, i) ==
    IF At(b, i) # "\"" \/ StrEnd(b, i + 1) = 0 THEN JFail
    ELSE JOk(JStr(SubSeq(b, i + 1, StrEnd(b, i + 1) - 1)), StrEnd(b, i + 1) + 1)

RECURSIVE JParseValue(_, _), JParseElems(_, _, _), JParseMembers(_, _, _)

\* one value starting at b[i], no leading space
JParseValue(b, i) ==
    LET c == At(b, i)
    IN  IF c = "[" THEN
            (IF At(b, SkipWs(b, i + 1)) = "]" THEN JOk(JArr(<<>>), SkipWs(b, i + 1) + 1)
             ELSE JParseElems(b, SkipWs(b, i + 1), <<>>))
        ELSE IF c = "{" THEN
            (IF At(b, SkipWs(b, i + 1)) = "}" THEN JOk(JObj(<<>>), SkipWs(b, i + 1) + 1)
             ELSE JParseMembers(b, SkipWs(b, i + 1), <<>>))
        ELSE IF c = "\"" THEN JParseString(b, i)
        ELSE IF IsDigit(c) THEN JOk(JNum(SubSeq(b, i, NumEnd(b, i) - 1)), NumEnd(b, i))
        ELSE IF Len(b) >= i + 3 /\ SubSeq(b, i, i + 3) = <<"n", "u", "l", "l">> THEN JOk(JNull, i + 4)
        ELSE JFail

\* the elements of an array from b[i] on, after those in acc
JParseElems(b, i, acc) ==
    LET v == JParseValue(b, i)
        j == SkipWs(b, v.next)
    IN  IF ~v.ok THEN JFail
        ELSE IF At(b, j) = "]" THEN JOk(JArr(Append(acc, v.val)), j + 1)
        ELSE IF At(b, j) = "," THEN JParseElems(b, SkipWs(b, j + 1), Append(acc, v.val))
        ELSE JFail

\* the members of an object from b[i] on, after those in acc
JParseMembers(b, i, acc) ==
    LET key == JParseString(b, i)
        colon == SkipWs(b, key.next)
        v == JParseValue(b, SkipWs(b, colon + 1))
        j == SkipWs(b, v.next)
        more == Append(acc, JMember(key.val.s, v.val))
    IN  IF ~key.ok THEN JFail
        ELSE IF At(b, colon) # ":" THEN JFail
        ELSE IF ~v.ok THEN JFail
        ELSE IF At(b, j) = "}" THEN JOk(JObj(more), j + 1)
        ELSE IF At(b, j) = "," THEN JParseMembers(b, SkipWs(b, j + 1), more)
        ELSE JFail

\* the whole text as one JSON document
JParse(b) ==
    LET v == JParseValue(b, SkipWs(b, 1))
    IN  IF v.ok /\ SkipWs(b, v.next) = Len(b) + 1 THEN v ELSE JFail

\* the bytes are one complete JSON array
IsJsonArray(b) == JParse(b).ok /\ JParse(b).val.k = "arr"

RECURSIVE SplitOn(_, _)
\* the pieces of s between occurrences of c
SplitOn(s, c) ==
    IF ~Has(s, c) THEN <<s>>
    ELSE LET k == CHOOSE k \in 1..Len(s) : s[k] = c /\ \A j \in 1..(k - 1) : s[j] # c
         IN  <<SubSeq(s, 1, k - 1)>> \o SplitOn(SubSeq(s, k + 1, Len(s)), c)

\* the rows of a delimited text whose fields need no quoting: each row ends in CR LF
RowsOf(b, delim) ==
    LET lines == SplitOn(b, NL)
    IN  [k \in 1..(Len(lines) - 1) |->
            SplitOn(SubSeq(lines[k], 1, Len(lines[k]) - 1), delim)]

-----------------------------------------------------------------------------
(* The canonical record of a raw record, as the specification words it     *)

IsTwoDigits(s, i) == IsDigit(At(s, i)) /\ IsDigit(At(s, i + 1))

TwoDigits(s, i) == 10 * DigitVal(s[i]) + DigitVal(s[i + 1])

\* DD.MM of a day that some year has (2000 is a leap year)
IsDayMonthText(s) ==
    /\ Len(s) >= 5
    /\ IsTwoDigits(s, 1) /\ s[3] = "." /\ IsTwoDigits(s, 4)
    /\ TwoDigits(s, 4) \in 1..12
    /\ TwoDigits(s, 1) \in 1..DaysInMonth(2000, TwoDigits(s, 4))

IsDayMonth(s) == Len(s) = 5 /\ IsDayMonthText(s)

FourDigits(s, i) == 100 * TwoDigits(s, i) + TwoDigits(s, i + 2)

\* DD.MM.YYYY of a day of that year
IsFullDate(s) ==
    /\ Len(s) = 10 /\ IsDayMonthText(s) /\ s[6] = "."
    /\ IsTwoDigits(s, 7) /\ IsTwoDigits(s, 9)
    /\ FourDigits(s, 7) >= 1
    /\ TwoDigits(s, 1) <= DaysInMonth(FourDigits(s, 7), TwoDigits(s, 4))

PlaceholderYear == <<"X", "X", "X", "X">>

\* MM-DD after the year
AfterYear(s) == <<"-">> \o SubSeq(s, 4, 5) \o <<"-">> \o SubSeq(s, 1, 2)

CanonicalBdate(value) ==
    IF value \in {Absent, None} THEN None
    ELSE IF IsFullDate(value.s) THEN Str(SubSeq(value.s, 7, 10) \o AfterYear(value.s))
    ELSE Str(PlaceholderYear \o AfterYear(value.s))

CanonicalTitle(value) == IF value = Absent THEN None ELSE Str(value.s)

CanonicalSex(value) ==
    IF value = Absent THEN None
    ELSE IF value = IntVal(<<"1">>) THEN Female ELSE Male

Canonical(friend) ==
    [key \in Keys |->
        CASE key \in {"first_name", "last_name"} -> friend[key]
          [] key \in {"country", "city"} -> CanonicalTitle(friend[key])
          [] key = "bdate" -> CanonicalBdate(friend[key])
          [] key = "sex" -> CanonicalSex(friend[key])]

CanonicalBatch(batch) == [k \in 1..Len(batch) |-> Canonical(batch[k])]

\* a RawRecord of the data model
WellFormed(friend) ==
    /\ friend["first_name"].t = "str" /\ friend["last_name"].t = "str"
    /\ friend["country"].t \in {"absent", "dict"}
    /\ friend["city"].t \in {"absent", "dict"}
    /\ friend["sex"].t \in {"absent", "int"}
    /\ \/ friend["bdate"] = Absent
       \/ /\ friend["bdate"].t = "str"
          /\ (IsFullDate(friend["bdate"].s) \/ IsDayMonth(friend["bdate"].s))

WellFormedBatch(batch) == \A k \in 1..Len(batch) : WellFormed(batch[k])

\* the JSON object of a canonical record
JsonOf(canon) ==
    JObj([k \in 1..Len(KeyOrder) |->
            JMember(Chars(KeyOrder[k]),
                    IF canon[KeyOrder[k]] = None THEN JNull
                    ELSE JStr(canon[KeyOrder[k]].s))])

JsonOfBatch(batch) == [k \in 1..Len(batch) |-> JsonOf(Canonical(batch[k]))]

\* the delimited row of a canonical record: null is an empty field
RowOf(canon) == [k \in 1..Len(KeyOrder) |-> CsvText(canon[KeyOrder[k]])]

RowsOfBatch(batch) == [k \in 1..Len(batch) |-> RowOf(Canonical(batch[k]))]

HeaderRow == [k \in 1..Len(HeaderFields) |-> HeaderFields[k].s]

Supported == {".json", ".csv", ".tsv"}

-----------------------------------------------------------------------------
(* Claims *)

\* the last operation was a save that reached a .json destination
JsonSaved == op = "save" /\ ext = ".json"

\* C1: from an empty .json file, save with batch A and then with batch B
\* leaves one JSON array whose elements are the records of A followed by
\* the records of B.
C1_AppendIsConcatenation ==
    (ext = ".json" /\ ncalls = 2 /\ WellFormedBatch(first) /\ WellFormedBatch(arg))
        => /\ JParse(file.bytes).ok
           /\ JParse(file.bytes).val = JArr(JsonOfBatch(first) \o JsonOfBatch(arg))

\* C2 as stated: after every save on a .json destination that create_file
\* made, whether it returned or raised, the file is one complete JSON array.
C2_AlwaysJsonArray == JsonSaved => IsJsonArray(file.bytes)

\* C2 as amended: a .json destination that create_file made holds, after
\* every operation, either no byte at all or one complete JSON array.
C2_EmptyOrJsonArray ==
    ext = ".json" => (file.bytes = <<>> \/ IsJsonArray(file.bytes))

\* a third save has appended to a file that already held two batches
C2_Witness ==
    /\ JsonSaved /\ exc = NoExc /\ ncalls = 3
    /\ before.bytes # <<>> /\ file.bytes # before.bytes
    /\ Len(JParse(file.bytes).val.items) = 3

\* C3: from a .csv file that holds the header row, save with A and then
\* with B leaves the header followed by the rows of A and the rows of B,
\* each of six fields in the canonical order.
C3_RowsAppended ==
    (ext = ".csv" /\ ncalls = 2 /\ WellFormedBatch(first) /\ WellFormedBatch(arg))
        => RowsOf(file.bytes, ",")
             = <<HeaderRow>> \o RowsOfBatch(first) \o RowsOfBatch(arg)

\* C4: for a batch of well-formed raw records clean_data returns, and the
\* batch it returns has the canonical record of input i at position i.
C4_CleanDataCanonical ==
    (op = "save" /\ ext \in Supported /\ WellFormedBatch(arg))
        => (exc = NoExc /\ items = CanonicalBatch(arg))

\* C5: bdate_to_iso gives XXXX-MM-DD for DD.MM, YYYY-MM-DD for DD.MM.YYYY
\* and None for None.
C5_BdateToIso ==
    op = "bdate_to_iso" =>
        /\ bd_in = None => bd_out = Returned(None)
        /\ (bd_in # None /\ IsFullDate(bd_in.s)) => bd_out = Returned(CanonicalBdate(bd_in))
        /\ (bd_in # None /\ IsDayMonth(bd_in.s)) => bd_out = Returned(CanonicalBdate(bd_in))

\* C6 as stated: after clean_data returns or raises, the caller's batch is
\* what it was.
C6_InputUnchanged == (op = "save" /\ ext \in Supported) => items = arg

\* what fill_gaps may leave under a key of a record that held value
MayHold(key, value) ==
    {value}
      \cup (IF value = Absent THEN {None} ELSE {})
      \cup (IF key \in {"country", "city"} /\ value.t = "dict" THEN {Str(value.s)} ELSE {})
      \cup (IF key = "sex" /\ value # Absent
            THEN {IF value = IntVal(<<"1">>) THEN Female ELSE Male} ELSE {})

\* an ISO date text of the day and month the text names
IsIsoOf(new, old) ==
    /\ new.t = "str" /\ old.t = "str"
    /\ Len(new.s) = 10 /\ Len(old.s) >= 3
    /\ \E d \in {1, 2} : \E m \in {1, 2} :
          /\ Len(old.s) >= d + 1 + m
          /\ SubSeq(new.s, 5, 10)
               = <<"-">> \o (IF m = 1 THEN <<"0">> ELSE <<>>)
                   \o SubSeq(old.s, d + 2, d + 1 + m)
                   \o <<"-">> \o (IF d = 1 THEN <<"0">> ELSE <<>>) \o SubSeq(old.s, 1, d)

\* C6 as amended: normalisation rewrites the caller's records in place and
\* nothing else: after clean_data returns or raises the batch has the same
\* length, every record keeps its first_name and last_name, and each of
\* country, city, bdate, sex holds either what was passed or its normalised
\* value (null for an absent key, the title text, Female or Male, an ISO
\* date text of the same day and month).
C6_OnlyOptionalFieldsRewritten ==
    (op = "save" /\ ext \in Supported) =>
        /\ Len(items) = Len(arg)
        /\ \A i \in 1..Len(arg) :
              /\ items[i]["first_name"] = arg[i]["first_name"]
              /\ items[i]["last_name"] = arg[i]["last_name"]
              /\ \A key \in {"country", "city", "sex"} :
                    items[i][key] \in MayHold(key, arg[i][key])
              /\ \/ items[i]["bdate"] \in MayHold("bdate", arg[i]["bdate"])
                 \/ IsIsoOf(items[i]["bdate"], arg[i]["bdate"])

\* a record that had every optional field was rewritten, then a later
\* record's date failed to parse
C6_Witness ==
    /\ op = "save" /\ ext = ".json" /\ exc = "ValueError"
    /\ arg = <<FriendFull, FriendBadDate>>
    /\ items[1] # arg[1] /\ items[1]["city"] = Str(FriendFull["city"].s)
    /\ items[1]["bdate"] # arg[1]["bdate"]

\* C7: a save on a non-empty .json file whose last byte is not "]" raises
\* and leaves the file as it was.
C7_CorruptTailRefused ==
    (JsonSaved /\ before.bytes # <<>> /\ before.bytes[Len(before.bytes)] # "]")
        => (exc # NoExc /\ file = before)

\* C8: a save to a path whose extension is none of .csv, .tsv, .json raises
\* and neither creates nor modifies a file at that path.
C8_UnsupportedExtension ==
    (op = "save" /\ ext \notin Supported) => (exc # NoExc /\ file = before)

\* C9: a save that returns on a .json file of N > 0 bytes keeps the first
\* N - 1 bytes and leaves more than N bytes, and no save shortens the file.
C9_TailOnlyEdit ==
    JsonSaved =>
        /\ Len(file.bytes) >= Len(before.bytes)
        /\ (exc = NoExc /\ before.bytes # <<>>) =>
              /\ Len(file.bytes) > Len(before.bytes)
              /\ SubSeq(file.bytes, 1, Len(before.bytes) - 1)
                   = SubSeq(before.bytes, 1, Len(before.bytes) - 1)

\* a save returned on a .json file that held two batches
C9_Witness ==
    /\ JsonSaved /\ exc = NoExc /\ ncalls = 3
    /\ Len(before.bytes) > 9 /\ Len(file.bytes) > Len(before.bytes)

\* C10: when normalising the batch raises, save_as_json and save_as_sv
\* raise that error and the destination holds the bytes it held before.
C10_NoWriteWhenNormalisationRaises ==
    (op = "save" /\ ext \in Supported /\ clean_data(arg).exc # NoExc)
        => (exc = clean_data(arg).exc /\ file = before)

\* a date of neither form reached a .json file that already held a batch
C10_Witness ==
    /\ JsonSaved /\ exc = "ValueError" /\ before.bytes # <<>>
    /\ \E i \in 1..Len(arg) : arg[i] = FriendBadDate

=============================================================================
